---- MODULE Spec2Model ----
(***************************************************************************)
(* Model of backend/main.py: a Flask backend that reads its environment    *)
(* configuration and its Secret Manager secrets once, at import time, and  *)
(* then serves read-only JSON endpoints.                                    *)
(*                                                                          *)
(* Python strings that the code computes on (lower(), slicing, decoding)   *)
(* are sequences of code points; string literals that are only copied into *)
(* a response are TLA+ strings.  Timestamps are left out of the bodies.    *)
(***************************************************************************)
EXTENDS Integers, Sequences, FiniteSets, TLC

VARIABLES
    ENVIRONMENT,     \* main.py:27, a str
    PROJECT_ID,      \* main.py:28, a str or None
    secret_client,   \* main.py:31-36, the client object or None
    DB_PASSWORD,     \* main.py:59, the cached secret: a str or None
    API_KEY,         \* main.py:60
    store,           \* the external Secret Manager: secret name -> outcome of an access
    pc,              \* "startup" (module import), "serving" (app.run), "crashed"
    loads,           \* how many times initialize_secrets has run
    requested,       \* secret name -> number of access_secret_version calls made
    replies,         \* secret name -> what the last access_secret_version call returned
    storeAtLastRun,  \* the external store as it was when the loader was last re-run
    request,         \* the last HTTP request handled
    response         \* the response it got

vars == <<ENVIRONMENT, PROJECT_ID, secret_client, DB_PASSWORD, API_KEY, store, pc,
          loads, requested, replies, storeAtLastRun, request, response>>

----------------------------------------------------------------------------
(* Python values *)

None == [t |-> "None", v |-> <<>>]

Str(s) == [t |-> "str", v |-> s]

PyInt(n) == [t |-> "int", v |-> <<n>>]

List(items) == [t |-> "list", v |-> items]

Dict(pairs) == [t |-> "dict", v |-> pairs]

ClientObj == [t |-> "SecretManagerServiceClient", v |-> <<>>]

\* Python truth value testing, as used by `if not data`, `if DB_PASSWORD`,
\* `if not PROJECT_ID`, `if not secret_client`, `a or b`.
Truthy(x) ==
    CASE x.t = "None" -> FALSE
      [] x.t \in {"str", "list", "dict"} -> Len(x.v) > 0
      [] x.t = "int" -> x.v[1] # 0
      [] OTHER -> TRUE

\* a or b
PyOr(a, b) == IF Truthy(a) THEN a ELSE b

\* len(x) of a str
PyLen(x) == Len(x.v)

\* x[:n] of a str
Prefix(x, n) == Str(SubSeq(x.v, 1, IF Len(x.v) < n THEN Len(x.v) ELSE n))

\* x + y of two str
Concat(x, y) == Str(x.v \o y.v)

Ellipsis == Str(<<46, 46, 46>>)   \* "..."

----------------------------------------------------------------------------
(* bytes.decode('UTF-8'), strict: the code points, or a UnicodeDecodeError *)

IsCont(b) == b >= 128 /\ b <= 191

\* Number of bytes of the sequence a lead byte starts; 0 for a byte that cannot lead.
SeqLen(b) ==
    IF b <= 127 THEN 1
    ELSE IF b >= 194 /\ b <= 223 THEN 2
    ELSE IF b >= 224 /\ b <= 239 THEN 3
    ELSE IF b >= 240 /\ b <= 244 THEN 4
    ELSE 0

\* The second byte's range excludes overlong forms, surrogates and > U+10FFFF.
SecondOk(lead, b) ==
    CASE lead = 224 -> b >= 160 /\ b <= 191
      [] lead = 237 -> b >= 128 /\ b <= 159
      [] lead = 240 -> b >= 144 /\ b <= 191
      [] lead = 244 -> b >= 128 /\ b <= 143
      [] OTHER -> IsCont(b)

CodePoint(bs) ==
    CASE Len(bs) = 1 -> bs[1]
      [] Len(bs) = 2 -> (bs[1] - 192) * 64 + (bs[2] - 128)
      [] Len(bs) = 3 -> (bs[1] - 224) * 4096 + (bs[2] - 128) * 64 + (bs[3] - 128)
      [] OTHER -> (bs[1] - 240) * 262144 + (bs[2] - 128) * 4096
                  + (bs[3] - 128) * 64 + (bs[4] - 128)

RECURSIVE utf8_decode(_)
utf8_decode(bytes) ==
    IF bytes = <<>> THEN [ok |-> TRUE, chars |-> <<>>]
    ELSE LET n == SeqLen(bytes[1])
             wellFormed ==
                 /\ n > 0
                 /\ Len(bytes) >= n
                 /\ n >= 2 => SecondOk(bytes[1], bytes[2])
                 /\ \A i \in 3..n : IsCont(bytes[i])
         IN  IF ~wellFormed THEN [ok |-> FALSE, chars |-> <<>>]
             ELSE LET rest == utf8_decode(SubSeq(bytes, n + 1, Len(bytes)))
                  IN  IF rest.ok
                      THEN [ok |-> TRUE,
                            chars |-> <<CodePoint(SubSeq(bytes, 1, n))>> \o rest.chars]
                      ELSE [ok |-> FALSE, chars |-> <<>>]

----------------------------------------------------------------------------
(* str.lower() *)

lower_identity(s) == s

LowerChar(c) ==
    IF (c >= 65 /\ c <= 90) \/ (c >= 192 /\ c <= 222 /\ c # 215) THEN c + 32 ELSE c

lower(s) == Str([i \in 1..Len(s.v) |-> LowerChar(s.v[i])])

----------------------------------------------------------------------------
(* Environment names and the tables keyed by them *)

dev == Str(<<100, 101, 118>>)
development == Str(<<100, 101, 118, 101, 108, 111, 112, 109, 101, 110, 116>>)
qa == Str(<<113, 97>>)
staging == Str(<<115, 116, 97, 103, 105, 110, 103>>)
prod == Str(<<112, 114, 111, 100>>)
production == Str(<<112, 114, 111, 100, 117, 99, 116, 105, 111, 110>>)

\* Values the ENVIRONMENT variable of the process environment is drawn from:
\* the known names, case variants of them, and names outside the table.
EnvNames ==
    {dev, development, qa, staging, prod, production,
     Str(<<68, 69, 86>>),                                           \* "DEV"
     Str(<<68, 101, 118, 101, 108, 111, 112, 109, 101, 110, 116>>), \* "Development"
     Str(<<81, 65>>),                                               \* "QA"
     Str(<<83, 116, 97, 103, 105, 110, 103>>),                      \* "Staging"
     Str(<<80, 82, 79, 68>>),                                       \* "PROD"
     Str(<<80, 114, 111, 100, 117, 99, 116, 105, 111, 110>>),       \* "Production"
     Str(<<116, 101, 115, 116>>),                                   \* "test"
     Str(<<112, 114, 111, 100, 49>>),                               \* "prod1"
     Str(<<>>)}                                                     \* ""

\* Values of GCP_PROJECT_ID and GOOGLE_CLOUD_PROJECT: unset, empty, or a project id.
ProjectVars == {None, Str(<<>>), Str(<<109, 121, 45, 112, 114, 111, 106>>)}  \* "my-proj"

\* dict.get(key, default)
DictGet(d, key, default) == IF key \in DOMAIN d THEN d[key] ELSE default

ENV_COLORS ==
    (dev :> "#FFA500") @@ (development :> "#FFA500") @@
    (qa :> "#4169E1") @@ (staging :> "#4169E1") @@
    (prod :> "#228B22") @@ (production :> "#228B22")

env_purposes ==
    (dev :> "Active development and testing") @@
    (development :> "Active development and testing") @@
    (qa :> "Quality assurance and validation") @@
    (staging :> "Quality assurance and validation") @@
    (prod :> "Live production environment") @@
    (production :> "Live production environment")

----------------------------------------------------------------------------
(* The external Secret Manager *)

db_password_name == "db-password"
api_key_name == "api-key"

SecretNames == {db_password_name, api_key_name}

\* What access_secret_version does for one secret: it raises (the secret or its
\* version does not exist, permission denied, the network fails), or it returns
\* the payload bytes of the latest version.
RemoteError == [kind |-> "error", payload |-> <<>>]

Payload(bytes) == [kind |-> "payload", payload |-> bytes]

NotRequested == [kind |-> "none", payload |-> <<>>]

Payloads ==
    {<<>>,                          \* b""
     <<112, 119>>,                  \* b"pw"
     <<195, 169, 112, 119, 100>>,   \* "épwd": 5 bytes, 4 characters
     <<112, 255>>}                  \* not UTF-8

Outcomes == {RemoteError} \cup {Payload(b) : b \in Payloads}

\* The values a cached secret can hold: None or a decoded payload.
CacheValues ==
    {None} \cup {Str(utf8_decode(b).chars) : b \in {p \in Payloads : utf8_decode(p).ok}}

\* secret_client.access_secret_version(request={"name": name})
access_secret_version(secret_name) == store[secret_name]

----------------------------------------------------------------------------
(* get_secret: what it returns or raises, and whether it called the service *)

Returned(value, called) == [raised |-> FALSE, value |-> value, called |-> called]

Raised(called) == [raised |-> TRUE, value |-> None, called |-> called]

\* The body of the try block.
get_secret_try(secret_name) ==
    IF ~Truthy(PROJECT_ID) THEN Returned(None, FALSE)
    ELSE LET reply == access_secret_version(secret_name)
         IN  IF reply.kind = "error" THEN Raised(TRUE)
             ELSE LET decoded == utf8_decode(reply.payload)
                  IN  IF decoded.ok THEN Returned(Str(decoded.chars), TRUE)
                      ELSE Raised(TRUE)

\* except Exception: return None
ExceptReturnNone(r) == IF r.raised THEN Returned(None, r.called) ELSE r

\* get_secret with the try block's handler missing.
get_secret_unguarded(secret_name) ==
    IF ~Truthy(secret_client) THEN Returned(None, FALSE)
    ELSE get_secret_try(secret_name)

get_secret(secret_name) ==
    IF ~Truthy(secret_client) THEN Returned(None, FALSE)
    ELSE ExceptReturnNone(get_secret_try(secret_name))

----------------------------------------------------------------------------
(* initialize_secrets *)

\* The bookkeeping of the calls made: one more request per call, and its reply.
Called(names) ==
    /\ requested' = [n \in SecretNames |->
                        IF n \in names THEN requested[n] + 1 ELSE requested[n]]
    /\ replies' = [n \in SecretNames |->
                        IF n \in names THEN store[n] ELSE replies[n]]

CalledBy(r1, r2) ==
    {n \in SecretNames : \/ n = db_password_name /\ r1.called
                         \/ n = api_key_name /\ r2.called}

\* A loader that gives up on api-key once db-password could not be loaded.
initialize_secrets_stop_on_failure ==
    LET r1 == get_secret(db_password_name)
        r2 == IF r1.value = None THEN Returned(None, FALSE) ELSE get_secret(api_key_name)
    IN  /\ loads' = loads + 1
        /\ DB_PASSWORD' = r1.value
        /\ API_KEY' = r2.value
        /\ Called(CalledBy(r1, r2))
        /\ pc' = "serving"

\* A loader that keeps a secret it already holds: X = X or get_secret(...).
initialize_secrets_keep_loaded ==
    LET r1 == IF Truthy(DB_PASSWORD) THEN Returned(DB_PASSWORD, FALSE)
              ELSE get_secret(db_password_name)
        r2 == IF Truthy(API_KEY) THEN Returned(API_KEY, FALSE)
              ELSE get_secret(api_key_name)
    IN  /\ loads' = loads + 1
        /\ DB_PASSWORD' = r1.value
        /\ API_KEY' = r2.value
        /\ Called(CalledBy(r1, r2))
        /\ pc' = "serving"

\* An exception leaving get_secret leaves initialize_secrets and ends the import.
initialize_secrets ==
    LET r1 == get_secret(db_password_name)
        r2 == get_secret(api_key_name)
    IN  /\ loads' = loads + 1
        /\ IF r1.raised
           THEN /\ UNCHANGED <<DB_PASSWORD, API_KEY>>
                /\ Called(CalledBy(r1, Returned(None, FALSE)))
                /\ pc' = "crashed"
           ELSE IF r2.raised
           THEN /\ DB_PASSWORD' = r1.value
                /\ UNCHANGED API_KEY
                /\ Called(CalledBy(r1, r2))
                /\ pc' = "crashed"
           ELSE /\ DB_PASSWORD' = r1.value
                /\ API_KEY' = r2.value
                /\ Called(CalledBy(r1, r2))
                /\ pc' = "serving"

\* with app.app_context(): initialize_secrets(), at import, before app.run.
Startup ==
    /\ pc = "startup"
    /\ initialize_secrets
    /\ UNCHANGED <<ENVIRONMENT, PROJECT_ID, secret_client, store, storeAtLastRun,
                   request, response>>

\* The external store changes: a secret is created, rotated or deleted.
StoreChange ==
    \E n \in SecretNames, o \in Outcomes :
        /\ o # store[n]
        /\ store' = [store EXCEPT ![n] = o]
        /\ UNCHANGED <<ENVIRONMENT, PROJECT_ID, secret_client, DB_PASSWORD, API_KEY,
                       pc, loads, requested, replies, storeAtLastRun, request, response>>

----------------------------------------------------------------------------
(* HTTP requests and responses *)

NoBody == [present |-> FALSE, json |-> None]

\* A request body holding a JSON document, given as the Python value it parses to
\* (null parses to None).
JsonBody(value) == [present |-> TRUE, json |-> value]

PostBodies ==
    {NoBody,
     JsonBody(None),                          \* null
     JsonBody(Dict(<<>>)),                    \* {}
     JsonBody(Dict(<<<<"k", PyInt(1)>>>>)),   \* {"k": 1}
     JsonBody(List(<<>>)),                    \* []
     JsonBody(PyInt(0))}                      \* 0

UnmatchedPaths == {"/api/nope"}

\* request.get_json(): the parsed document, None when the request carries none.
get_json(body) == IF body.present THEN body.json ELSE None

Request(method, path, body) == [method |-> method, path |-> path, body |-> body]

NoRequest == Request("", "", NoBody)

Response(endpoint, status, body) == [endpoint |-> endpoint, status |-> status, body |-> body]

NoResponse == Response("none", 0, <<>>)

\* The server accepts requests once app.run is reached, after the import-time load.
AcceptingAlways == pc # "crashed"

Accepting == pc = "serving"

\* A handler reads the globals, answers, and changes nothing else.
Answer(method, path, body, endpoint, status, json) ==
    /\ Accepting
    /\ request' = Request(method, path, body)
    /\ response' = Response(endpoint, status, json)

HandlerFrame ==
    UNCHANGED <<ENVIRONMENT, PROJECT_ID, secret_client, DB_PASSWORD, API_KEY, store, pc,
                loads, requested, replies, storeAtLastRun>>

health_check_body ==
    [status |-> "healthy", service |-> "backend-api", environment |-> ENVIRONMENT,
     project |-> PROJECT_ID, version |-> "2.0.0"]

health_check ==
    /\ Answer("GET", "/api/health", NoBody, "health_check", 200, health_check_body)
    /\ HandlerFrame

api_status_body ==
    [status |-> "operational", service |-> "backend-api", environment |-> ENVIRONMENT,
     environment_color |-> DictGet(ENV_COLORS, lower(ENVIRONMENT), "#808080"),
     project_id |-> PROJECT_ID,
     secrets_configured |-> [db_password |-> DB_PASSWORD # None,
                             api_key |-> API_KEY # None],
     architecture |-> [containerized |-> TRUE, runtime |-> "App Engine Flexible",
                       container_registry |-> "Artifact Registry"],
     version |-> "2.0.0"]

api_status ==
    /\ Answer("GET", "/api/status", NoBody, "api_status", 200, api_status_body)
    /\ HandlerFrame

Item(id, name, value, status) == [id |-> id, name |-> name, value |-> value, status |-> status]

get_data_items ==
    LET env_lower == lower(ENVIRONMENT)
    IN  IF env_lower \in {dev, development}
        THEN <<Item(1, "DEV Item 1", 100, "testing"),
               Item(2, "DEV Item 2", 200, "testing"),
               Item(3, "DEV Item 3", 300, "testing")>>
        ELSE IF env_lower \in {qa, staging}
        THEN <<Item(1, "QA Item 1", 150, "validation"),
               Item(2, "QA Item 2", 250, "validation"),
               Item(3, "QA Item 3", 350, "validation")>>
        ELSE <<Item(1, "PROD Item 1", 1000, "active"),
               Item(2, "PROD Item 2", 2000, "active"),
               Item(3, "PROD Item 3", 3000, "active")>>

get_data_body ==
    [message |-> <<"Data from ", ENVIRONMENT, " environment">>,
     environment |-> ENVIRONMENT,
     items |-> get_data_items,
     total_items |-> Len(get_data_items)]

get_data ==
    /\ Answer("GET", "/api/data", NoBody, "get_data", 200, get_data_body)
    /\ HandlerFrame

\* A handler that checks the body for presence only: if data is None.
post_data_presence_check ==
    \E body \in PostBodies :
        LET data == get_json(body)
        IN  /\ IF data = None
               THEN Answer("POST", "/api/data", body, "post_data", 400,
                           [error |-> "No data provided", environment |-> ENVIRONMENT])
               ELSE Answer("POST", "/api/data", body, "post_data", 201,
                           [message |-> "Data received successfully",
                            environment |-> ENVIRONMENT,
                            received |-> data,
                            status |-> "processed"])
            /\ HandlerFrame

post_data ==
    \E body \in PostBodies :
        LET data == get_json(body)
        IN  /\ IF ~Truthy(data)
               THEN Answer("POST", "/api/data", body, "post_data", 400,
                           [error |-> "No data provided", environment |-> ENVIRONMENT])
               ELSE Answer("POST", "/api/data", body, "post_data", 201,
                           [message |-> "Data received successfully",
                            environment |-> ENVIRONMENT,
                            received |-> data,
                            status |-> "processed"])
            /\ HandlerFrame

env_info_body ==
    [environment |-> ENVIRONMENT,
     environment_color |-> DictGet(ENV_COLORS, lower(ENVIRONMENT), "#808080"),
     project_id |-> PROJECT_ID,
     purpose |-> DictGet(env_purposes, lower(ENVIRONMENT), "Unknown environment"),
     url |-> IF Truthy(PROJECT_ID)
             THEN <<"https://", PROJECT_ID, ".uc.r.appspot.com">> ELSE <<"unknown">>,
     configuration |-> [debug_mode |-> lower(ENVIRONMENT) \in {dev, development}]]

env_info ==
    /\ Answer("GET", "/api/env-info", NoBody, "env_info", 200, env_info_body)
    /\ HandlerFrame

\* One entry of secrets_status.
SecretStatus(secret) ==
    [loaded |-> secret # None,
     length |-> IF Truthy(secret) THEN PyLen(secret) ELSE 0,
     preview |-> IF Truthy(secret) THEN Concat(Prefix(secret, 3), Ellipsis) ELSE None]

secret_test_body ==
    [environment |-> ENVIRONMENT,
     secrets_status |-> [db_password |-> SecretStatus(DB_PASSWORD),
                         api_key |-> SecretStatus(API_KEY)],
     note |-> "Only showing first 3 characters for security"]

\* A handler that fetches the secrets again before answering.
secret_test_reloading ==
    /\ Answer("GET", "/api/secret-test", NoBody, "secret_test", 200, secret_test_body)
    /\ DB_PASSWORD' = get_secret(db_password_name).value
    /\ API_KEY' = get_secret(api_key_name).value
    /\ UNCHANGED <<ENVIRONMENT, PROJECT_ID, secret_client, store, pc,
                   loads, requested, replies, storeAtLastRun>>

secret_test ==
    /\ Answer("GET", "/api/secret-test", NoBody, "secret_test", 200, secret_test_body)
    /\ HandlerFrame

not_found ==
    \E path \in UnmatchedPaths :
        /\ Answer("GET", path, NoBody, "not_found", 404,
                  [error |-> "Not Found",
                   message |-> "The requested API endpoint does not exist",
                   environment |-> ENVIRONMENT,
                   path |-> path])
        /\ HandlerFrame

----------------------------------------------------------------------------
(* The process: import (lines 27-60), the load (243-245), then serving (255) *)

Init ==
    /\ \E e \in EnvNames \cup {None} :
           ENVIRONMENT = IF e = None THEN development ELSE e
    /\ \E a \in ProjectVars, b \in ProjectVars : PROJECT_ID = PyOr(a, b)
    /\ secret_client \in {ClientObj, None}
    /\ DB_PASSWORD = None
    /\ API_KEY = None
    /\ store \in [SecretNames -> Outcomes]
    /\ pc = "startup"
    /\ loads = 0
    /\ requested = [n \in SecretNames |-> 0]
    /\ replies = [n \in SecretNames |-> NotRequested]
    /\ storeAtLastRun = <<>>
    /\ request = NoRequest
    /\ response = NoResponse

Next ==
    \/ Startup
    \/ StoreChange
    \/ health_check
    \/ api_status
    \/ get_data
    \/ post_data
    \/ env_info
    \/ secret_test
    \/ not_found

Spec == Init /\ [][Next]_vars

----------------------------------------------------------------------------
(* The loader run again in a process that already holds a cache *)

MaxReloads == 2

Reload ==
    /\ loads < MaxReloads
    /\ initialize_secrets
    /\ storeAtLastRun' = store
    /\ UNCHANGED <<ENVIRONMENT, PROJECT_ID, secret_client, store, request, response>>

InitReload ==
    /\ ENVIRONMENT = development
    /\ \E a \in ProjectVars, b \in ProjectVars : PROJECT_ID = PyOr(a, b)
    /\ secret_client \in {ClientObj, None}
    /\ DB_PASSWORD \in CacheValues
    /\ API_KEY \in CacheValues
    /\ store \in [SecretNames -> Outcomes]
    /\ pc = "serving"
    /\ loads = 0
    /\ requested = [n \in SecretNames |-> 0]
    /\ replies = [n \in SecretNames |-> NotRequested]
    /\ storeAtLastRun = <<>>
    /\ request = NoRequest
    /\ response = NoResponse

NextReload ==
    \/ Reload
    \/ StoreChange

SpecReload == InitReload /\ [][NextReload]_vars

----------------------------------------------------------------------------
(* Properties *)

Cache(n) == IF n = db_password_name THEN DB_PASSWORD ELSE API_KEY

\* Whether an access outcome is one the process can turn into a value.
Loadable(o) ==
    /\ Truthy(secret_client)
    /\ Truthy(PROJECT_ID)
    /\ o.kind = "payload"
    /\ utf8_decode(o.payload).ok

\* The cache entry an access outcome stands for.
EntryFor(o) == IF Loadable(o) THEN Str(utf8_decode(o.payload).chars) ELSE None

\* JSON documents that are present but empty: null, {}, [], "", 0.
EmptyJson(j) == j \in {None, Dict(<<>>), List(<<>>), Str(<<>>), PyInt(0)}

\* C1 (as stated): every present JSON body, {} included, is answered 201, and only
\* an absent body is answered 400 "No data provided".
C1_PresentBodyAccepted ==
    response.endpoint = "post_data" =>
        /\ request.body.present <=> response.status = 201
        /\ ~request.body.present =>
               response.status = 400 /\ response.body.error = "No data provided"

\* C1 (amended): POST /api/data answers 201 and echoes the body exactly when the
\* body is present and not empty; an empty document ({} included) is answered like
\* an absent body, 400 "No data provided".
C1_NonEmptyBodyAccepted ==
    response.endpoint = "post_data" =>
        LET body == request.body
            accepted == body.present /\ ~EmptyJson(body.json)
        IN  /\ accepted => response.status = 201 /\ response.body.received = body.json
            /\ ~accepted =>
                   response.status = 400 /\ response.body.error = "No data provided"

C1_EmptyObjectRejected ==
    /\ request.body = JsonBody(Dict(<<>>))
    /\ response.endpoint = "post_data"
    /\ response.status = 400

\* One secrets_status entry agrees with the secret it reports.
StatusConsistent(entry, secret) ==
    /\ entry.loaded <=> secret # None
    /\ entry.loaded =>
           LET k == IF Len(secret.v) < 3 THEN Len(secret.v) ELSE 3
           IN  entry.preview = Str(SubSeq(secret.v, 1, k) \o <<46, 46, 46>>)
    /\ ~entry.loaded => entry.preview = None /\ entry.length = 0

\* C2: for every cached value, GET /api/secret-test reports preview = the first 3
\* characters + "..." whenever loaded is true, and preview = null, length = 0
\* whenever loaded is false.
C2_PreviewConsistent ==
    response.endpoint = "secret_test" =>
        /\ StatusConsistent(response.body.secrets_status.db_password, DB_PASSWORD)
        /\ StatusConsistent(response.body.secrets_status.api_key, API_KEY)

\* A preview that begins with the whole (non-empty) secret.
RevealsWhole(preview, secret) ==
    /\ secret # None
    /\ preview # None
    /\ Len(secret.v) > 0
    /\ Len(preview.v) >= Len(secret.v)
    /\ SubSeq(preview.v, 1, Len(secret.v)) = secret.v

\* C3: no response carries a full secret value; the preview never reveals the
\* whole secret.
C3_NoFullSecretInResponse ==
    response.endpoint = "secret_test" =>
        /\ ~RevealsWhole(response.body.secrets_status.db_password.preview, DB_PASSWORD)
        /\ ~RevealsWhole(response.body.secrets_status.api_key.preview, API_KEY)

\* C4: once the startup load has completed, no step (a request to any endpoint, a
\* change of the external store) changes the cached secrets.
C4_CacheFrozenAfterStartup ==
    [][pc = "serving" => DB_PASSWORD' = DB_PASSWORD /\ API_KEY' = API_KEY]_vars

\* A secret that did not exist at startup exists now, and is still reported absent.
C4_CreatedSecretStaysAbsent ==
    /\ pc = "serving"
    /\ replies[db_password_name] = RemoteError
    /\ EntryFor(store[db_password_name]) # None
    /\ DB_PASSWORD = None
    /\ response.endpoint = "secret_test"
    /\ ~response.body.secrets_status.db_password.loaded

\* C5: the load runs exactly once, before any request is handled; a request is only
\* ever handled in the serving state, and the serving state is never left.
C5_LoadOnceBeforeServing ==
    /\ [](loads <= 1)
    /\ [](request # NoRequest => pc = "serving" /\ loads = 1)
    /\ [][pc = "serving" => pc' = "serving" /\ loads' = loads]_vars

C5_ServedAfterLoad ==
    /\ pc = "serving"
    /\ loads = 1
    /\ response.endpoint = "api_status"

\* A cause of failure for the retrieval of secret n during the load.
FailureCause(n) ==
    \/ ~Truthy(secret_client)
    \/ ~Truthy(PROJECT_ID)
    \/ replies[n].kind = "error"
    \/ replies[n].kind = "payload" /\ ~utf8_decode(replies[n].payload).ok

\* C6: whatever makes a retrieval fail, the secret is recorded as None, nothing is
\* raised out of get_secret, the startup pass completes, and each secret is
\* requested at most once.
C6_FailureRecordedAsAbsent ==
    /\ pc # "crashed"
    /\ pc = "startup" => ENABLED Startup
    /\ loads >= 1 => pc = "serving"
    /\ \A n \in SecretNames :
           /\ requested[n] <= 1
           /\ (loads >= 1 /\ FailureCause(n)) => Cache(n) = None

C6_UndecodablePayloadAbsent ==
    /\ pc = "serving"
    /\ replies[db_password_name].kind = "payload"
    /\ ~utf8_decode(replies[db_password_name].payload).ok
    /\ requested[db_password_name] = 1
    /\ DB_PASSWORD = None

\* C7: each cache entry is decided by the outcome of its own retrieval alone, and
\* both retrievals are attempted whatever the other one's outcome.
C7_RetrievalsIndependent ==
    pc = "serving" =>
        /\ \A n \in SecretNames : Cache(n) = EntryFor(replies[n])
        /\ (Truthy(secret_client) /\ Truthy(PROJECT_ID)) =>
               \A n \in SecretNames : requested[n] = 1

C7_OneFailedOtherLoaded ==
    /\ pc = "serving"
    /\ replies[db_password_name] = RemoteError
    /\ DB_PASSWORD = None
    /\ replies[api_key_name].kind = "payload"
    /\ API_KEY # None

\* C8: a run of the loader leaves the cache a fresh process would get from the
\* external state at call time, whatever the cache held before; a second run with
\* the external state unchanged leaves the cache as it was.
C8_LoaderIdempotent ==
    [][loads' = loads + 1 =>
           /\ \A n \in SecretNames : Cache(n)' = EntryFor(store[n])
           /\ (loads >= 1 /\ store = storeAtLastRun) =>
                  (DB_PASSWORD' = DB_PASSWORD /\ API_KEY' = API_KEY)]_vars

C8_SecondRunSameStore ==
    /\ loads = 2
    /\ store = storeAtLastRun
    /\ DB_PASSWORD # None
    /\ API_KEY = None

\* Equality of two names up to the case of ASCII letters.
SameIgnoringCase(a, b) ==
    LET Up(c) == IF c >= 97 /\ c <= 122 THEN c - 32 ELSE c
    IN  /\ Len(a.v) = Len(b.v)
        /\ \A i \in 1..Len(a.v) : Up(a.v[i]) = Up(b.v[i])

\* The tier an environment name belongs to.
Tier(name) ==
    IF \E k \in {dev, development} : SameIgnoringCase(name, k) THEN "dev"
    ELSE IF \E k \in {qa, staging} : SameIgnoringCase(name, k) THEN "qa"
    ELSE IF \E k \in {prod, production} : SameIgnoringCase(name, k) THEN "prod"
    ELSE "unknown"

TierColor(tier) ==
    CASE tier = "dev" -> "#FFA500"
      [] tier = "qa" -> "#4169E1"
      [] tier = "prod" -> "#228B22"
      [] OTHER -> "#808080"

TierPurpose(tier) ==
    CASE tier = "dev" -> "Active development and testing"
      [] tier = "qa" -> "Quality assurance and validation"
      [] tier = "prod" -> "Live production environment"
      [] OTHER -> "Unknown environment"

\* C9: color, purpose and debug flag follow the fixed table on the name taken
\* case-insensitively, and /api/status and /api/env-info report the same color.
C9_EnvTable ==
    LET tier == Tier(ENVIRONMENT)
    IN  /\ response.endpoint = "env_info" =>
               /\ response.body.environment_color = TierColor(tier)
               /\ response.body.purpose = TierPurpose(tier)
               /\ response.body.configuration.debug_mode <=> tier = "dev"
               /\ api_status_body.environment_color = response.body.environment_color
        /\ response.endpoint = "api_status" =>
               /\ response.body.environment_color = TierColor(tier)
               /\ env_info_body.environment_color = response.body.environment_color

C9_UpperCaseNameResolved ==
    /\ ENVIRONMENT = Str(<<80, 82, 79, 68>>)
    /\ response.endpoint = "env_info"
    /\ response.body.environment_color = "#228B22"

ItemValues(items) == [i \in 1..Len(items) |-> items[i].value]

\* C10: GET /api/data serves the production items (1000, 2000, 3000, "active";
\* total_items = 3) for prod/production names, and an unknown environment name is
\* not served the item set of one of the known tiers.
C10_DataByTier ==
    response.endpoint = "get_data" =>
        LET tier == Tier(ENVIRONMENT)
            items == response.body.items
        IN  /\ tier = "prod" =>
                   /\ ItemValues(items) = <<1000, 2000, 3000>>
                   /\ \A i \in 1..Len(items) : items[i].status = "active"
                   /\ response.body.total_items = 3
            /\ tier = "unknown" =>
                   ItemValues(items) \notin
                       {<<100, 200, 300>>, <<150, 250, 350>>, <<1000, 2000, 3000>>}

====
